---- MODULE Spec2Model ----
(***************************************************************************)
(* Model of the Monkey front end: the byte-cursor lexer (src/src/lexer.rs), *)
(* the token model (src/src/token.rs), the Pratt parser                     *)
(* (src/src/parser.rs) and the pretty printer (src/src/ast.rs).             *)
(*                                                                         *)
(* A string is a sequence of one-character strings; NUL stands for the     *)
(* byte '\0'.  A position is zero-based as in the source, so the byte at   *)
(* position i of input is input[i + 1].                                    *)
(***************************************************************************)
EXTENDS Integers, Sequences, FiniteSets, TLC

VARIABLES
    lexer,          \* the Lexer: [input, position, read_position, ch]
    emitted,        \* every token Lexer::next_token has returned, in order
    current_token,  \* Parser.current_token
    peek_token,     \* Parser.peek_token
    errors,         \* Parser.errors
    statements,     \* Program.statements of the program being built
    pending,        \* the let / return node awaiting its semicolon
    pc              \* where the driver stands

vars == <<lexer, emitted, current_token, peek_token, errors, statements, pending, pc>>

(***************************************************************************)
(* Bounds of the model.                                                    *)
(***************************************************************************)
MaxPieces == 3          \* lexer inputs: at most this many short pieces glued together
MaxKeywordPieces == 2   \* lexer inputs: at most this many pieces when keywords are among them
MaxWords == 3           \* parser inputs: at most this many free words
MaxOps == 2             \* parser inputs: chains of any operators, at most this many
MaxLevelOps == 3        \* parser inputs: chains of operators of one level, at most this many
MaxOverrun == 2         \* next_token calls allowed past the end of the input
MaxLets == 2            \* parser inputs: at most this many complete let statements
MaxStatements == 2      \* parser inputs: at most this many expressions with optional semicolons
MaxTailWords == 2       \* parser inputs: at most this many words after `let x =` or `return`

(***************************************************************************)
(* Characters.                                                             *)
(***************************************************************************)
NUL == "NUL"

Letters ==
    {"a", "b", "c", "d", "e", "f", "g", "h", "i", "j", "k", "l", "m",
     "n", "o", "p", "q", "r", "s", "t", "u", "v", "w", "x", "y", "z",
     "A", "B", "C", "D", "E", "F", "G", "H", "I", "J", "K", "L", "M",
     "N", "O", "P", "Q", "R", "S", "T", "U", "V", "W", "X", "Y", "Z", "_"}

Digits == {"0", "1", "2", "3", "4", "5", "6", "7", "8", "9"}

Whitespace == {" ", "\t", "\n", "\r"}

\* Mutant: digits count as identifier characters.
is_letter_or_digit(ch) == ch \in Letters \cup Digits

is_letter(ch) == ch \in Letters

is_digit(ch) == ch \in Digits

(***************************************************************************)
(* Tokens.                                                                 *)
(***************************************************************************)
Token(token_type, literal) == [token_type |-> token_type, literal |-> literal]

lookup_identifier(identifier) ==
    CASE identifier = <<"f", "n">> -> "Function"
      [] identifier = <<"l", "e", "t">> -> "Let"
      [] identifier = <<"t", "r", "u", "e">> -> "True"
      [] identifier = <<"f", "a", "l", "s", "e">> -> "False"
      [] identifier = <<"i", "f">> -> "If"
      [] identifier = <<"e", "l", "s", "e">> -> "Else"
      [] identifier = <<"r", "e", "t", "u", "r", "n">> -> "Return"
      [] OTHER -> "Ident"

(***************************************************************************)
(* Lexer.                                                                  *)
(***************************************************************************)
\* Mutant: the read cursor moves two positions.
read_char_two_ahead(l) ==
    [l EXCEPT !.ch = IF l.read_position >= Len(l.input)
                     THEN NUL
                     ELSE l.input[l.read_position + 1],
              !.position = l.read_position,
              !.read_position = l.read_position + 2]

read_char(l) ==
    [l EXCEPT !.ch = IF l.read_position >= Len(l.input)
                     THEN NUL
                     ELSE l.input[l.read_position + 1],
              !.position = l.read_position,
              !.read_position = l.read_position + 1]

LexerNew(input) ==
    read_char([input |-> input, position |-> 0, read_position |-> 0, ch |-> NUL])

peek_char(l) ==
    IF l.read_position >= Len(l.input) THEN NUL ELSE l.input[l.read_position + 1]

RECURSIVE skip_whitespace(_)
skip_whitespace(l) ==
    IF l.ch \in Whitespace THEN skip_whitespace(read_char(l)) ELSE l

RECURSIVE IdentifierEnd(_)
IdentifierEnd(l) ==
    IF is_letter(l.ch) THEN IdentifierEnd(read_char(l)) ELSE l

\* self.input[position..self.position], with the lexer left at `after`.
Slice(l, after) ==
    [lexer |-> after, literal |-> SubSeq(l.input, l.position + 1, after.position)]

read_identifier(l) == Slice(l, IdentifierEnd(l))

RECURSIVE NumberEnd(_)
NumberEnd(l) ==
    IF is_digit(l.ch) THEN NumberEnd(read_char(l)) ELSE l

read_number(l) == Slice(l, NumberEnd(l))

SingleCharType(ch) ==
    CASE ch = "+" -> "Plus"
      [] ch = "-" -> "Minus"
      [] ch = "*" -> "Asterisk"
      [] ch = "/" -> "Slash"
      [] ch = "<" -> "LT"
      [] ch = ">" -> "GT"
      [] ch = ";" -> "Semicolon"
      [] ch = "(" -> "LParen"
      [] ch = ")" -> "RParen"
      [] ch = "," -> "Comma"
      [] ch = "{" -> "LBrace"
      [] ch = "}" -> "RBrace"
      [] OTHER -> "Illegal"

\* Mutant: the second character of `==` / `!=` is not consumed.
TwoCharTokenUnconsumed(l, two, one) ==
    IF peek_char(l) = "="
    THEN [lexer |-> read_char(l), token |-> Token(two, <<l.ch, read_char(l).ch>>)]
    ELSE [lexer |-> read_char(l), token |-> Token(one, <<l.ch>>)]

\* The '=' and '!' arms of next_token, with the read_char that ends it.
TwoCharToken(l, two, one) ==
    IF peek_char(l) = "="
    THEN [lexer |-> read_char(read_char(l)),
          token |-> Token(two, <<l.ch, read_char(l).ch>>)]
    ELSE [lexer |-> read_char(l), token |-> Token(one, <<l.ch>>)]

IdentifierToken(r) ==
    [lexer |-> r.lexer, token |-> Token(lookup_identifier(r.literal), r.literal)]

NumberToken(r) == [lexer |-> r.lexer, token |-> Token("Int", r.literal)]

\* next_token after skip_whitespace: the lexer afterwards and the token returned.
TokenAt(l) ==
    CASE l.ch = "=" -> TwoCharToken(l, "EQ", "Assign")
      [] l.ch = "!" -> TwoCharToken(l, "NotEQ", "Bang")
      [] l.ch = NUL -> [lexer |-> read_char(l), token |-> Token("EOF", <<>>)]
      [] is_letter(l.ch) -> IdentifierToken(read_identifier(l))
      [] is_digit(l.ch) -> NumberToken(read_number(l))
      [] OTHER -> [lexer |-> read_char(l), token |-> Token(SingleCharType(l.ch), <<l.ch>>)]

\* Lexer::next_token.
LexerNextToken(l) == TokenAt(skip_whitespace(l))

(***************************************************************************)
(* Display names and formatting.  format!("{:?}") of a string wraps it in  *)
(* double quotes; of a TokenType it is the variant's name.                 *)
(***************************************************************************)
as_str(token_type) ==
    CASE token_type = "Illegal" -> <<"ILLEGAL">>
      [] token_type = "EOF" -> <<"EOF">>
      [] token_type = "Ident" -> <<"IDENT">>
      [] token_type = "Int" -> <<"INT">>
      [] token_type = "Assign" -> <<"=">>
      [] token_type = "Plus" -> <<"+">>
      [] token_type = "Minus" -> <<"-">>
      [] token_type = "Bang" -> <<"!">>
      [] token_type = "Asterisk" -> <<"*">>
      [] token_type = "Slash" -> <<"/">>
      [] token_type = "LT" -> <<"<">>
      [] token_type = "GT" -> <<">">>
      [] token_type = "Comma" -> <<",">>
      [] token_type = "Semicolon" -> <<";">>
      [] token_type = "LParen" -> <<"(">>
      [] token_type = "RParen" -> <<")">>
      [] token_type = "LBrace" -> <<"{">>
      [] token_type = "RBrace" -> <<"}">>
      [] token_type = "Function" -> <<"FUNCTION">>
      [] token_type = "Let" -> <<"LET">>
      [] token_type = "True" -> <<"TRUE">>
      [] token_type = "False" -> <<"FALSE">>
      [] token_type = "If" -> <<"IF">>
      [] token_type = "Else" -> <<"ELSE">>
      [] token_type = "Return" -> <<"RETURN">>
      [] token_type = "EQ" -> <<"==">>
      [] token_type = "NotEQ" -> <<"!=">>

DebugStr(s) == <<"\"">> \o s \o <<"\"">>

DebugTokenType(token_type) == <<token_type>>

(***************************************************************************)
(* str::parse::<i64> on a lexeme of decimal digits.  The value is kept as  *)
(* its decimal digits without leading zeros, which is exact at any width.  *)
(***************************************************************************)
I64MaxDigits ==
    <<"9", "2", "2", "3", "3", "7", "2", "0", "3", "6",
      "8", "5", "4", "7", "7", "5", "8", "0", "7">>

DigitValue(d) ==
    CASE d = "0" -> 0 [] d = "1" -> 1 [] d = "2" -> 2 [] d = "3" -> 3
      [] d = "4" -> 4 [] d = "5" -> 5 [] d = "6" -> 6 [] d = "7" -> 7
      [] d = "8" -> 8 [] d = "9" -> 9

RECURSIVE StripZeros(_)
StripZeros(ds) ==
    IF Len(ds) > 1 /\ Head(ds) = "0" THEN StripZeros(Tail(ds)) ELSE ds

RECURSIVE DigitsLeq(_, _)
DigitsLeq(a, b) ==
    IF a = <<>> THEN TRUE
    ELSE IF DigitValue(Head(a)) < DigitValue(Head(b)) THEN TRUE
    ELSE IF DigitValue(Head(a)) > DigitValue(Head(b)) THEN FALSE
    ELSE DigitsLeq(Tail(a), Tail(b))

ParseI64(literal) ==
    LET ds == StripZeros(literal)
        ok == /\ literal # <<>>
              /\ \A i \in 1..Len(literal) : is_digit(literal[i])
              /\ \/ Len(ds) < Len(I64MaxDigits)
                 \/ Len(ds) = Len(I64MaxDigits) /\ DigitsLeq(ds, I64MaxDigits)
    IN  [ok |-> ok, value |-> ds]

(***************************************************************************)
(* Precedence levels.                                                      *)
(***************************************************************************)
Lowest == 0
Equals == 1
LessGreater == 2
Sum == 3
Product == 4
Prefix == 5
Call == 6

\* Mutant: `/` and `*` are given the level of `+` and `-`.
precedence_product_as_sum(token_type) ==
    CASE token_type \in {"EQ", "NotEQ"} -> Equals
      [] token_type \in {"LT", "GT"} -> LessGreater
      [] token_type \in {"Plus", "Minus", "Slash", "Asterisk"} -> Sum
      [] token_type = "LParen" -> Call
      [] OTHER -> Lowest

precedence_for_token_type(token_type) ==
    CASE token_type \in {"EQ", "NotEQ"} -> Equals
      [] token_type \in {"LT", "GT"} -> LessGreater
      [] token_type \in {"Plus", "Minus"} -> Sum
      [] token_type \in {"Slash", "Asterisk"} -> Product
      [] token_type = "LParen" -> Call
      [] OTHER -> Lowest

InfixTokenTypes == {"Plus", "Minus", "Slash", "Asterisk", "EQ", "NotEQ", "LT", "GT"}

(***************************************************************************)
(* Parser.  A parser state ps is                                           *)
(*   [lexer, emitted, current_token, peek_token, errors];                  *)
(* an expression parse returns [ps, expr, panicked], where expr is NoneExpr *)
(* for Option::None and panicked records an unwrap() of None.              *)
(***************************************************************************)
NoneExpr == [node_type |-> "None"]

ExprResult(ps, expr, panicked) == [ps |-> ps, expr |-> expr, panicked |-> panicked]

\* Mutant: the new token becomes the current token as well.
AdvanceWithoutLookahead(ps, r) ==
    [ps EXCEPT !.current_token = r.token,
               !.peek_token = r.token,
               !.lexer = r.lexer,
               !.emitted = Append(ps.emitted, r.token)]

Advance(ps, r) ==
    [ps EXCEPT !.current_token = ps.peek_token,
               !.peek_token = r.token,
               !.lexer = r.lexer,
               !.emitted = Append(ps.emitted, r.token)]

\* Parser::next_token.
ParserNextToken(ps) == Advance(ps, LexerNextToken(ps.lexer))

ParserNew(l) ==
    ParserNextToken(ParserNextToken(
        [lexer |-> l,
         emitted |-> <<>>,
         current_token |-> Token("EOF", <<>>),
         peek_token |-> Token("EOF", <<>>),
         errors |-> <<>>]))

current_token_is(ps, token_type) == ps.current_token.token_type = token_type

peek_token_is(ps, token_type) == ps.peek_token.token_type = token_type

peek_error(ps, token_type) ==
    [ps EXCEPT !.errors = Append(ps.errors,
        <<"expected next token to be ">> \o DebugStr(as_str(token_type))
            \o <<", got ">> \o DebugStr(as_str(ps.peek_token.token_type))
            \o <<" instead">>)]

\* Mutant: a failed expectation is not logged.
expect_peek_unlogged(ps, token_type) ==
    IF peek_token_is(ps, token_type)
    THEN [ps |-> ParserNextToken(ps), ok |-> TRUE]
    ELSE [ps |-> ps, ok |-> FALSE]

\* expect_peek: the parser afterwards and the boolean returned.
expect_peek(ps, token_type) ==
    IF peek_token_is(ps, token_type)
    THEN [ps |-> ParserNextToken(ps), ok |-> TRUE]
    ELSE [ps |-> peek_error(ps, token_type), ok |-> FALSE]

peek_precedence(ps) == precedence_for_token_type(ps.peek_token.token_type)

current_precedence(ps) == precedence_for_token_type(ps.current_token.token_type)

Identifier(token, value) ==
    [node_type |-> "Identifier", token |-> token, value |-> value]

\* Mutant: the placeholder carries a lexeme and a value.
PlaceholderWithValue == Identifier(Token("Ident", <<"v">>), <<"v">>)

PlaceholderIdentifier == Identifier(Token("Ident", <<>>), <<>>)

parse_identifier(ps) ==
    ExprResult(ps, Identifier(ps.current_token, ps.current_token.literal), FALSE)

\* Mutant: an integer literal out of range is not logged.
IntegerLiteralOfUnlogged(ps, parsed) ==
    IF parsed.ok
    THEN ExprResult(ps,
                    [node_type |-> "IntegerLiteral",
                     token |-> ps.current_token,
                     value |-> parsed.value],
                    FALSE)
    ELSE ExprResult(ps, NoneExpr, FALSE)

IntegerLiteralOf(ps, parsed) ==
    IF parsed.ok
    THEN ExprResult(ps,
                    [node_type |-> "IntegerLiteral",
                     token |-> ps.current_token,
                     value |-> parsed.value],
                    FALSE)
    ELSE ExprResult([ps EXCEPT !.errors = Append(ps.errors,
                        <<"could not parse ">> \o DebugStr(ps.current_token.literal)
                            \o <<" as integer">>)],
                    NoneExpr, FALSE)

parser_integer_literal(ps) == IntegerLiteralOf(ps, ParseI64(ps.current_token.literal))

\* The expression built from the operator token and the operand result r;
\* unwrap() of a None operand panics.
PrefixExpressionOf(token, r) ==
    IF r.panicked \/ r.expr = NoneExpr
    THEN ExprResult(r.ps, NoneExpr, TRUE)
    ELSE ExprResult(r.ps,
                    [node_type |-> "PrefixExpression",
                     token |-> token,
                     operator |-> token.literal,
                     right |-> r.expr],
                    FALSE)

InfixExpressionOf(token, left, r) ==
    IF r.panicked \/ r.expr = NoneExpr
    THEN ExprResult(r.ps, NoneExpr, TRUE)
    ELSE ExprResult(r.ps,
                    [node_type |-> "InfixExpression",
                     token |-> token,
                     left |-> left,
                     operator |-> token.literal,
                     right |-> r.expr],
                    FALSE)

RECURSIVE parse_expression(_, _)
RECURSIVE InfixLoop(_, _)
RECURSIVE InfixArm(_, _, _)
RECURSIVE parse_prefix_expression(_)
RECURSIVE parse_infix_expression(_, _)

\* Mutant: the operand of a prefix operator is parsed at Lowest.
parse_prefix_expression_lowest(ps) ==
    PrefixExpressionOf(ps.current_token, parse_expression(ParserNextToken(ps), Lowest))

parse_prefix_expression(ps) ==
    PrefixExpressionOf(ps.current_token, parse_expression(ParserNextToken(ps), Prefix))

\* Mutant: the right operand of an infix operator is parsed at Lowest.
parse_infix_expression_lowest(ps, left) ==
    InfixExpressionOf(ps.current_token, left,
                      parse_expression(ParserNextToken(ps), Lowest))

parse_infix_expression(ps, left) ==
    InfixExpressionOf(ps.current_token, left,
                      parse_expression(ParserNextToken(ps), current_precedence(ps)))

\* The arm of the loop's match for an infix operator, next_token() done:
\* left.unwrap(), then parse_infix_expression.
InfixArm(ps, left, precedence) ==
    IF left = NoneExpr
    THEN ExprResult(ps, NoneExpr, TRUE)
    ELSE InfixLoop(parse_infix_expression(ps, left), precedence)

\* Mutant: every peek token of higher precedence is taken for an infix
\* operator.
InfixLoopAnyOperator(r, precedence) ==
    IF r.panicked THEN r
    ELSE IF ~peek_token_is(r.ps, "Semicolon") /\ precedence < peek_precedence(r.ps)
    THEN InfixArm(ParserNextToken(r.ps), r.expr, precedence)
    ELSE r

\* The while loop of parse_expression, entered with r holding `left`.
InfixLoop(r, precedence) ==
    IF r.panicked THEN r
    ELSE IF ~peek_token_is(r.ps, "Semicolon") /\ precedence < peek_precedence(r.ps)
    THEN IF r.ps.peek_token.token_type \in InfixTokenTypes
         THEN InfixArm(ParserNextToken(r.ps), r.expr, precedence)
         ELSE r
    ELSE r

parse_expression(ps, precedence) ==
    CASE ps.current_token.token_type = "Ident" ->
            InfixLoop(parse_identifier(ps), precedence)
      [] ps.current_token.token_type = "Int" ->
            InfixLoop(parser_integer_literal(ps), precedence)
      [] ps.current_token.token_type \in {"Bang", "Minus"} ->
            InfixLoop(parse_prefix_expression(ps), precedence)
      [] OTHER ->
            ExprResult([ps EXCEPT !.errors = Append(ps.errors,
                            <<"no prefix parse function for ">>
                                \o DebugTokenType(ps.current_token.token_type)
                                \o <<" found">>)],
                       NoneExpr, FALSE)

\* Mutant: a semicolon after the expression is not consumed.
ExpressionStatementKeepsSemicolon(token, r) ==
    IF r.panicked
    THEN [ps |-> r.ps, statement |-> NoneExpr, panicked |-> TRUE]
    ELSE [ps |-> r.ps,
          statement |-> [node_type |-> "ExpressionStatement",
                         token |-> token,
                         expression |-> r.expr],
          panicked |-> FALSE]

\* The statement built from the first token and the expression result r.
ExpressionStatementOf(token, r) ==
    IF r.panicked
    THEN [ps |-> r.ps, statement |-> NoneExpr, panicked |-> TRUE]
    ELSE [ps |-> IF peek_token_is(r.ps, "Semicolon") THEN ParserNextToken(r.ps) ELSE r.ps,
          statement |-> [node_type |-> "ExpressionStatement",
                         token |-> token,
                         expression |-> r.expr],
          panicked |-> FALSE]

\* parse_expression_statement: [ps, statement, panicked].
parse_expression_statement(ps) ==
    ExpressionStatementOf(ps.current_token, parse_expression(ps, Lowest))

\* parse_program on a source of expression statements: the loop as a
\* function of the parser, [ok, statements, errors]; ok is FALSE when a
\* statement panics or begins with `let` or `return`.
RECURSIVE ExpressionProgram(_, _)
ExpressionProgramPush(r, stmts) ==
    IF r.panicked
    THEN [ok |-> FALSE, statements |-> stmts, errors |-> r.ps.errors]
    ELSE ExpressionProgram(ParserNextToken(r.ps), Append(stmts, r.statement))

ExpressionProgram(ps, stmts) ==
    IF ps.current_token.token_type = "EOF"
    THEN [ok |-> TRUE, statements |-> stmts, errors |-> ps.errors]
    ELSE IF ps.current_token.token_type \in {"Let", "Return"}
    THEN [ok |-> FALSE, statements |-> stmts, errors |-> ps.errors]
    ELSE ExpressionProgramPush(parse_expression_statement(ps), stmts)

(***************************************************************************)
(* Pretty printing (Display), a string being a sequence of characters.     *)
(***************************************************************************)
RECURSIVE ExpressionString(_)
ExpressionString(e) ==
    CASE e.node_type = "Identifier" -> e.value
      [] e.node_type = "IntegerLiteral" -> e.token.literal
      [] e.node_type = "PrefixExpression" ->
            <<"(">> \o e.operator \o ExpressionString(e.right) \o <<")">>
      [] e.node_type = "InfixExpression" ->
            <<"(">> \o ExpressionString(e.left) \o <<" ">> \o e.operator \o <<" ">>
                \o ExpressionString(e.right) \o <<")">>

StatementString(s) ==
    CASE s.node_type = "LetStatement" ->
            s.token.literal \o <<" ">> \o ExpressionString(s.name) \o <<" ", "=", " ">>
                \o ExpressionString(s.value) \o <<";">>
      [] s.node_type = "ReturnStatement" ->
            s.token.literal
                \o (IF s.value = NoneExpr THEN <<>> ELSE <<" ">> \o ExpressionString(s.value))
                \o <<";">>
      [] s.node_type = "ExpressionStatement" ->
            IF s.expression = NoneExpr THEN <<>> ELSE ExpressionString(s.expression)

RECURSIVE ProgramString(_)
ProgramString(stmts) ==
    IF stmts = <<>> THEN <<>>
    ELSE StatementString(Head(stmts)) \o ProgramString(Tail(stmts))

(***************************************************************************)
(* Inputs.                                                                 *)
(***************************************************************************)
SeqsUpTo(S, n) == UNION {[1..k -> S] : k \in 0..n}

RECURSIVE Glue(_)
Glue(pieces) ==
    IF pieces = <<>> THEN <<>> ELSE Head(pieces) \o Glue(Tail(pieces))

RECURSIVE Join(_)
Join(words) ==
    IF words = <<>> THEN <<>>
    ELSE IF Len(words) = 1 THEN Head(words)
    ELSE Head(words) \o <<" ">> \o Join(Tail(words))

\* Lexer inputs: pieces glued together with nothing between them.
ShortPieces ==
    {<<"a">>, <<"_">>, <<"1">>, <<"0">>, <<"=">>, <<"!">>, <<";">>, <<"@">>,
     <<" ">>, <<"\n">>, <<NUL>>}

KeywordPieces ==
    {<<"f", "n">>, <<"l", "e", "t">>, <<"t", "r", "u", "e">>, <<"f", "a", "l", "s", "e">>,
     <<"i", "f">>, <<"e", "l", "s", "e">>, <<"r", "e", "t", "u", "r", "n">>,
     <<"L", "e", "t">>}

LexerSources ==
    {Glue(ps) : ps \in SeqsUpTo(ShortPieces, MaxPieces)}
        \cup {Glue(ps) : ps \in SeqsUpTo(ShortPieces \cup KeywordPieces, MaxKeywordPieces)}

\* Parser inputs: words separated by one space.
I64Max == I64MaxDigits

I64MaxPlusOne ==
    <<"9", "2", "2", "3", "3", "7", "2", "0", "3", "6",
      "8", "5", "4", "7", "7", "5", "8", "0", "8">>

InfixOperators ==
    {<<"+">>, <<"-">>, <<"*">>, <<"/">>, <<"<">>, <<">">>, <<"=", "=">>, <<"!", "=">>}

PrefixOperators == {<<"!">>, <<"-">>}

ParserWords ==
    {<<"a">>, <<"5">>, I64Max, I64MaxPlusOne,
     <<"+">>, <<"*">>, <<"-">>, <<"!">>,
     <<";">>, <<"=">>, <<"(">>, <<"l", "e", "t">>, <<"r", "e", "t", "u", "r", "n">>}

WordSources == {Join(ws) : ws \in SeqsUpTo(ParserWords, MaxWords)}

Names == <<"a", "b", "c", "d", "e", "f", "g", "h">>

Numerals == <<"1", "2", "3", "4", "5", "6", "7", "8">>

OperandAt(i, kind) == IF kind = "name" THEN <<Names[i]>> ELSE <<Numerals[i]>>

\* operand (operator operand)^k: the words of a chain with operators ops.
ChainWords(ops, kinds) ==
    [i \in 1..(2 * Len(ops) + 1) |->
        IF i % 2 = 1 THEN OperandAt((i + 1) \div 2, kinds[(i + 1) \div 2])
        ELSE ops[i \div 2]]

ChainSources ==
    UNION {{Join(ChainWords(ops, kinds)) :
                ops \in [1..k -> InfixOperators], kinds \in [1..(k + 1) -> {"name", "int"}]} :
           k \in 1..MaxOps}

OperatorLevels ==
    {{<<"=", "=">>, <<"!", "=">>}, {<<"<">>, <<">">>}, {<<"+">>, <<"-">>}, {<<"*">>, <<"/">>}}

\* Chains whose operators all come from one precedence level.
LevelChainSources ==
    UNION {{Join(ChainWords(ops, kinds)) :
                ops \in UNION {[1..k -> level] : level \in OperatorLevels},
                kinds \in [1..(k + 1) -> {"name", "int"}]} :
           k \in 1..MaxLevelOps}

\* One or two prefix operators before a chain of at most one operator.
PrefixSources ==
    {Join(pre \o rest) :
        pre \in [1..1 -> PrefixOperators] \cup [1..2 -> PrefixOperators],
        rest \in {<<a>> : a \in {<<"a">>, <<"5">>, I64MaxPlusOne}}
                 \cup {<<a, op, b>> : a \in {<<"a">>, <<"5">>}, op \in InfixOperators,
                                      b \in {<<"b">>, <<"6">>}}}

\* Sequences of statements `let <identifier> = <integer>;`, each written
\* with single spaces, with no optional whitespace, or across lines.
LetIdentifiers == {<<"a">>, <<"x", "_", "y">>}

LetIntegers == {<<"5">>, <<"1", "0">>}

LetLayouts == {"spaced", "compact", "lines"}

LetText(name, value, layout) ==
    CASE layout = "spaced" ->
            Join(<<<<"l", "e", "t">>, name, <<"=">>, value, <<";">>>>)
      [] layout = "compact" ->
            <<"l", "e", "t", " ">> \o name \o <<"=">> \o value \o <<";">>
      [] layout = "lines" ->
            <<"\n", "l", "e", "t", "\t">> \o name \o <<"\r", "\n", "=", " ", " ">>
                \o value \o <<";", "\n">>

LetTexts ==
    {LetText(name, value, layout) :
        name \in LetIdentifiers, value \in LetIntegers, layout \in LetLayouts}

LetSources == {Glue(texts) : texts \in SeqsUpTo(LetTexts, MaxLets)}

\* A let statement up to its `=`, or a return keyword, followed by free words.
TailWords ==
    {<<"5">>, <<"a">>, <<";">>, <<"=">>, <<"l", "e", "t">>, <<"r", "e", "t", "u", "r", "n">>}

TailSources ==
    {Join(head \o tail) :
        head \in {<<<<"l", "e", "t">>, <<"x">>, <<"=">>>>, <<<<"r", "e", "t", "u", "r", "n">>>>},
        tail \in SeqsUpTo(TailWords, MaxTailWords)}

\* Expressions and a lone `(`, each followed by a semicolon or not.
ExpressionTexts ==
    {<<<<"a">>>>, <<<<"5">>>>, <<<<"-">>, <<"5">>>>, <<<<"!">>, <<"a">>>>,
     <<<<"3">>, <<"+">>, <<"4">>>>, <<<<"-">>, <<"5">>, <<"*">>, <<"5">>>>,
     <<<<"(">>>>}

RECURSIVE Terminated(_, _)
Terminated(texts, ends) ==
    IF texts = <<>> THEN <<>>
    ELSE Head(texts) \o (IF Head(ends) THEN <<<<";">>>> ELSE <<>>)
            \o Terminated(Tail(texts), Tail(ends))

StatementSources ==
    UNION {{Join(Terminated(texts, ends)) :
                texts \in [1..k -> ExpressionTexts], ends \in [1..k -> BOOLEAN]} :
           k \in 1..MaxStatements}

ParserSources ==
    WordSources \cup ChainSources \cup LevelChainSources \cup PrefixSources
        \cup LetSources \cup TailSources \cup StatementSources

(***************************************************************************)
(* The parser driven by parse_program.                                     *)
(***************************************************************************)
PS ==
    [lexer |-> lexer, emitted |-> emitted, current_token |-> current_token,
     peek_token |-> peek_token, errors |-> errors]

SetPS(ps) ==
    /\ lexer' = ps.lexer
    /\ emitted' = ps.emitted
    /\ current_token' = ps.current_token
    /\ peek_token' = ps.peek_token
    /\ errors' = ps.errors

Init ==
    /\ \E ps \in {ParserNew(LexerNew(input)) : input \in ParserSources} :
          /\ lexer = ps.lexer
          /\ emitted = ps.emitted
          /\ current_token = ps.current_token
          /\ peek_token = ps.peek_token
          /\ errors = ps.errors
    /\ statements = <<>>
    /\ pending = NoneExpr
    /\ pc = "statement"

\* One turn of parse_program's loop on an expression statement.
ParseExpressionStatement ==
    /\ pc = "statement"
    /\ current_token.token_type \notin {"EOF", "Let", "Return"}
    /\ \E r \in {parse_expression_statement(PS)} :
          IF r.panicked
          THEN /\ SetPS(r.ps)
               /\ pc' = "panicked"
               /\ UNCHANGED <<statements, pending>>
          ELSE /\ SetPS(ParserNextToken(r.ps))
               /\ statements' = Append(statements, r.statement)
               /\ UNCHANGED <<pending, pc>>

\* parse_let_statement up to its skipping loop; a failed expectation ends the
\* statement with no node and the program loop advances one token.
ParseLetStatement ==
    /\ pc = "statement"
    /\ current_token.token_type = "Let"
    /\ \E e1 \in {expect_peek(PS, "Ident")} :
          IF ~e1.ok
          THEN /\ SetPS(ParserNextToken(e1.ps))
               /\ UNCHANGED <<statements, pending, pc>>
          ELSE \E e2 \in {expect_peek(e1.ps, "Assign")} :
                  IF ~e2.ok
                  THEN /\ SetPS(ParserNextToken(e2.ps))
                       /\ UNCHANGED <<statements, pending, pc>>
                  ELSE /\ SetPS(e2.ps)
                       /\ pending' = [node_type |-> "LetStatement",
                                      token |-> current_token,
                                      name |-> Identifier(e1.ps.current_token,
                                                          e1.ps.current_token.literal),
                                      value |-> PlaceholderIdentifier]
                       /\ pc' = "skip"
                       /\ UNCHANGED statements

\* parse_return_statement up to its skipping loop.
ParseReturnStatement ==
    /\ pc = "statement"
    /\ current_token.token_type = "Return"
    /\ SetPS(ParserNextToken(PS))
    /\ pending' = [node_type |-> "ReturnStatement",
                   token |-> current_token,
                   value |-> PlaceholderIdentifier]
    /\ pc' = "skip"
    /\ UNCHANGED statements

\* One turn of the loop `while !current_token_is(Semicolon) { next_token() }`.
SkipToken ==
    /\ pc = "skip"
    /\ ~current_token_is(PS, "Semicolon")
    /\ lexer.read_position <= Len(lexer.input) + MaxOverrun
    /\ SetPS(ParserNextToken(PS))
    /\ UNCHANGED <<statements, pending, pc>>

\* Mutant: the let / return node is not pushed.
EndSkipDropped ==
    /\ pc = "skip"
    /\ current_token_is(PS, "Semicolon")
    /\ pending' = NoneExpr
    /\ SetPS(ParserNextToken(PS))
    /\ pc' = "statement"
    /\ UNCHANGED statements

\* The skipping loop ends: the let / return node is pushed and the program
\* loop advances one token.
EndSkip ==
    /\ pc = "skip"
    /\ current_token_is(PS, "Semicolon")
    /\ statements' = Append(statements, pending)
    /\ pending' = NoneExpr
    /\ SetPS(ParserNextToken(PS))
    /\ pc' = "statement"

\* parse_program returns: the current token is EOF.
ReturnProgram ==
    /\ pc = "statement"
    /\ current_token.token_type = "EOF"
    /\ pc' = "done"
    /\ UNCHANGED <<lexer, emitted, current_token, peek_token, errors, statements, pending>>

Next ==
    \/ ParseExpressionStatement
    \/ ParseLetStatement
    \/ ParseReturnStatement
    \/ SkipToken
    \/ EndSkip
    \/ ReturnProgram

Spec == Init /\ [][Next]_vars

(***************************************************************************)
(* The lexer driven directly, as the REPL and the lexer test drive it.     *)
(***************************************************************************)
InitLexer ==
    /\ \E input \in LexerSources : lexer = LexerNew(input)
    /\ emitted = <<>>
    /\ current_token = Token("EOF", <<>>)
    /\ peek_token = Token("EOF", <<>>)
    /\ errors = <<>>
    /\ statements = <<>>
    /\ pending = NoneExpr
    /\ pc = "lexing"

NextToken ==
    /\ pc = "lexing"
    /\ lexer.read_position <= Len(lexer.input) + MaxOverrun
    /\ \E r \in {LexerNextToken(lexer)} :
          /\ lexer' = r.lexer
          /\ emitted' = Append(emitted, r.token)
    /\ UNCHANGED <<current_token, peek_token, errors, statements, pending, pc>>

NextLexer == NextToken

SpecLexer == InitLexer /\ [][NextLexer]_vars

(***************************************************************************)
(* Vocabulary of the properties.                                           *)
(***************************************************************************)
Last(seq) == seq[Len(seq)]

\* The words of a source whose words are separated by single spaces.
RECURSIVE SplitAt(_, _)
SplitAt(s, word) ==
    IF s = <<>> THEN (IF word = <<>> THEN <<>> ELSE <<word>>)
    ELSE IF Head(s) = " " THEN <<word>> \o SplitAt(Tail(s), <<>>)
    ELSE SplitAt(Tail(s), Append(word, Head(s)))

SourceWords == SplitAt(lexer.input, <<>>)

\* Operand words: an identifier or an integer literal within the i64 range.
OperandWords ==
    {<<Names[i]>> : i \in 1..Len(Names)} \cup {<<Numerals[i]>> : i \in 1..Len(Numerals)}
        \cup {<<"5">>, I64Max}

\* The precedence order of the infix operators as the specification states it.
OperatorLevel(op) ==
    CASE op \in {<<"=", "=">>, <<"!", "=">>} -> 1
      [] op \in {<<"<">>, <<">">>} -> 2
      [] op \in {<<"+">>, <<"-">>} -> 3
      [] op \in {<<"*">>, <<"/">>} -> 4

Parenthesized(left, op, right) ==
    <<"(">> \o left \o <<" ">> \o op \o <<" ">> \o right \o <<")">>

\* operand (operator operand)^k with k >= 1.
IsChain(w) ==
    /\ Len(w) >= 3
    /\ Len(w) % 2 = 1
    /\ \A i \in 1..Len(w) :
          IF i % 2 = 1 THEN w[i] \in OperandWords ELSE w[i] \in InfixOperators

\* The printed form of a chain folded from the left.
RECURSIVE LeftFolded(_, _)
LeftFolded(acc, rest) ==
    IF rest = <<>> THEN acc
    ELSE LeftFolded(Parenthesized(acc, rest[1], rest[2]), SubSeq(rest, 3, Len(rest)))

CouldNotParse(error) == error[1] = "could not parse "

\* The character at zero-based position p of the lexer's input.
CharAt(p) == IF p < Len(lexer.input) THEN lexer.input[p + 1] ELSE NUL

\* Where the next token starts: the first position from the cursor on that
\* holds no whitespace.
TokenStart ==
    CHOOSE p \in lexer.position..Len(lexer.input) :
        /\ CharAt(p) \notin Whitespace
        /\ \A q \in lexer.position..(p - 1) : CharAt(q) \in Whitespace

\* Where the run of characters of set S that starts at p ends.
RunEnd(p, S) ==
    CHOOSE e \in p..Len(lexer.input) :
        /\ CharAt(e) \notin S
        /\ \A q \in p..(e - 1) : CharAt(q) \in S

KeywordKind(word) ==
    CASE word = <<"f", "n">> -> "Function"
      [] word = <<"l", "e", "t">> -> "Let"
      [] word = <<"t", "r", "u", "e">> -> "True"
      [] word = <<"f", "a", "l", "s", "e">> -> "False"
      [] word = <<"i", "f">> -> "If"
      [] word = <<"e", "l", "s", "e">> -> "Else"
      [] word = <<"r", "e", "t", "u", "r", "n">> -> "Return"
      [] OTHER -> "Ident"

RECURSIVE LexemesUntilEOF(_)
LexemesUntilEOF(toks) ==
    IF toks = <<>> \/ Head(toks).token_type = "EOF" THEN <<>>
    ELSE Head(toks).literal \o LexemesUntilEOF(Tail(toks))

StripWhitespace(s) == SelectSeq(s, LAMBDA c : c \notin Whitespace)

(***************************************************************************)
(* C1.  Parser::new followed by parse_program never panics: every fault,   *)
(* a prefix operator without operand (`!;`, `-`) and an infix operator     *)
(* without right operand (`5 +`) included, only appends to errors.         *)
(* The unwrap() calls of parse_prefix_expression, parse_infix_expression   *)
(* and of the infix loop refute it.                                        *)
(***************************************************************************)
ParserNeverPanics == pc # "panicked"

(***************************************************************************)
(* C2.  A statement step that appends a `could not parse X as integer`     *)
(* error does not panic and emits the statement with no expression,        *)
(* wherever the out-of-range Int stands in the expression.                 *)
(***************************************************************************)
OverflowIsRecovered ==
    [][(\E i \in (Len(errors) + 1)..Len(errors') : CouldNotParse(errors'[i]))
            => /\ pc' # "panicked"
               /\ Len(statements') = Len(statements) + 1
               /\ Last(statements').node_type = "ExpressionStatement"
               /\ Last(statements').expression = NoneExpr]_vars

(***************************************************************************)
(* C3.  Once next_token has returned EOF, every later call returns EOF     *)
(* with the empty lexeme, for any input, an embedded NUL byte included.    *)
(***************************************************************************)
EOFIsFinal ==
    \A i, j \in 1..Len(emitted) :
        (i < j /\ emitted[i].token_type = "EOF") => emitted[j] = Token("EOF", <<>>)

(***************************************************************************)
(* C4.  With level(op1) < level(op2), `a op1 b op2 c` parses without error *)
(* and prints (a op1 (b op2 c)), and `a op2 b op1 c` prints                *)
(* ((a op2 b) op1 c).                                                      *)
(***************************************************************************)
IsTwoOperatorSource(w) == Len(w) = 5 /\ IsChain(w)

HigherPrecedenceBindsTighter ==
    IsTwoOperatorSource(SourceWords) =>
        /\ pc # "panicked"
        /\ pc = "done" =>
              /\ errors = <<>>
              /\ Len(statements) = 1
              /\ OperatorLevel(SourceWords[2]) < OperatorLevel(SourceWords[4]) =>
                    ProgramString(statements) =
                        Parenthesized(SourceWords[1], SourceWords[2],
                            Parenthesized(SourceWords[3], SourceWords[4], SourceWords[5]))
              /\ OperatorLevel(SourceWords[2]) > OperatorLevel(SourceWords[4]) =>
                    ProgramString(statements) =
                        Parenthesized(
                            Parenthesized(SourceWords[1], SourceWords[2], SourceWords[3]),
                            SourceWords[4], SourceWords[5])

HigherPrecedenceWitness ==
    /\ pc = "done"
    /\ SourceWords = <<<<"a">>, <<"+">>, <<"b">>, <<"*">>, <<"c">>>>
    /\ ProgramString(statements) =
          <<"(", "a", " ", "+", " ", "(", "b", " ", "*", " ", "c", ")", ")">>

(***************************************************************************)
(* C5.  A chain of operands joined by infix operators of one precedence    *)
(* level associates leftward, whatever its length: the program is one      *)
(* statement, an InfixExpression whose operator is the last operator and   *)
(* whose right operand is the last operand, printed as the left fold       *)
(* (((a op1 b) op2 c) ...).                                                *)
(***************************************************************************)
IsOneLevelChain(w) ==
    /\ IsChain(w)
    /\ \A i, j \in 1..Len(w) :
          (i % 2 = 0 /\ j % 2 = 0) => OperatorLevel(w[i]) = OperatorLevel(w[j])

EqualPrecedenceAssociatesLeft ==
    IsOneLevelChain(SourceWords) =>
        /\ pc # "panicked"
        /\ pc = "done" =>
              /\ errors = <<>>
              /\ Len(statements) = 1
              /\ statements[1].expression.node_type = "InfixExpression"
              /\ statements[1].expression.operator = SourceWords[Len(SourceWords) - 1]
              /\ statements[1].expression.right.token.literal = Last(SourceWords)
              /\ statements[1].expression.right.node_type \in {"Identifier", "IntegerLiteral"}
              /\ ProgramString(statements) =
                    LeftFolded(SourceWords[1], SubSeq(SourceWords, 2, Len(SourceWords)))

EqualPrecedenceWitness ==
    /\ pc = "done"
    /\ SourceWords = <<<<"a">>, <<"+">>, <<"b">>, <<"-">>, <<"c">>, <<"+">>, <<"d">>>>
    /\ ProgramString(statements) =
          <<"(", "(", "(", "a", " ", "+", " ", "b", ")", " ", "-", " ", "c", ")",
            " ", "+", " ", "d", ")">>

(***************************************************************************)
(* C6.  A prefix operator takes only the expression parsed at Prefix       *)
(* precedence: for each infix operator op, `-a op b` and `!a op b` parse   *)
(* to ((-a) op b) and ((!a) op b); stacked prefix operators nest rightward *)
(* (`!-a` gives (!(-a))); the PrefixExpression's operator is the operator  *)
(* token's lexeme.                                                         *)
(***************************************************************************)
IsPrefixedInfixSource(w) ==
    /\ Len(w) = 4
    /\ w[1] \in PrefixOperators
    /\ w[2] \in OperandWords
    /\ w[3] \in InfixOperators
    /\ w[4] \in OperandWords

IsStackedPrefixSource(w) ==
    /\ Len(w) = 3
    /\ w[1] \in PrefixOperators
    /\ w[2] \in PrefixOperators
    /\ w[3] \in OperandWords

PrefixBindsTightest ==
    /\ IsPrefixedInfixSource(SourceWords) =>
          /\ pc # "panicked"
          /\ pc = "done" =>
                /\ errors = <<>>
                /\ Len(statements) = 1
                /\ statements[1].expression.node_type = "InfixExpression"
                /\ statements[1].expression.left.node_type = "PrefixExpression"
                /\ statements[1].expression.left.operator = SourceWords[1]
                /\ statements[1].expression.left.operator =
                      statements[1].expression.left.token.literal
                /\ ProgramString(statements) =
                      Parenthesized(<<"(">> \o SourceWords[1] \o SourceWords[2] \o <<")">>,
                                    SourceWords[3], SourceWords[4])
    /\ IsStackedPrefixSource(SourceWords) =>
          /\ pc # "panicked"
          /\ pc = "done" =>
                /\ errors = <<>>
                /\ Len(statements) = 1
                /\ statements[1].expression.node_type = "PrefixExpression"
                /\ statements[1].expression.operator = SourceWords[1]
                /\ statements[1].expression.right.node_type = "PrefixExpression"
                /\ statements[1].expression.right.operator = SourceWords[2]
                /\ ProgramString(statements) =
                      <<"(">> \o SourceWords[1] \o <<"(">> \o SourceWords[2]
                          \o SourceWords[3] \o <<")", ")">>

PrefixBindsTightestWitness ==
    /\ pc = "done"
    /\ SourceWords = <<<<"-">>, <<"a">>, <<"*">>, <<"b">>>>
    /\ ProgramString(statements) =
          <<"(", "(", "-", "a", ")", " ", "*", " ", "b", ")">>

(***************************************************************************)
(* C7.  For any source, the lexemes of the tokens emitted before EOF,      *)
(* concatenated in emission order, equal the source with every space,      *)
(* tab, newline and carriage return removed.                               *)
(***************************************************************************)
LexemesReproduceSource ==
    (\E i \in 1..Len(emitted) : emitted[i].token_type = "EOF")
        => LexemesUntilEOF(emitted) = StripWhitespace(lexer.input)

(***************************************************************************)
(* C8.  When the token starts with `=` or `!` and the next character is    *)
(* `=`, next_token returns one EQ or NotEQ token with the two-character    *)
(* lexeme and leaves the cursor on the character after the second one;     *)
(* otherwise it returns Assign or Bang and consumes exactly one character. *)
(* Hence `===` lexes as EQ, Assign and `!==` as NotEQ, Assign.             *)
(***************************************************************************)
TwoCharStep ==
    (lexer.position < Len(lexer.input) /\ CharAt(TokenStart) \in {"=", "!"}) =>
        IF CharAt(TokenStart + 1) = "="
        THEN /\ Last(emitted') =
                   Token(IF CharAt(TokenStart) = "=" THEN "EQ" ELSE "NotEQ",
                         <<CharAt(TokenStart), "=">>)
             /\ lexer'.position = TokenStart + 2
             /\ lexer'.ch = CharAt(TokenStart + 2)
        ELSE /\ Last(emitted') =
                   Token(IF CharAt(TokenStart) = "=" THEN "Assign" ELSE "Bang",
                         <<CharAt(TokenStart)>>)
             /\ lexer'.position = TokenStart + 1
             /\ lexer'.ch = CharAt(TokenStart + 1)

TripleEquals ==
    /\ (lexer.input = <<"=", "=", "=">> /\ Len(emitted) >= 2) =>
          /\ emitted[1] = Token("EQ", <<"=", "=">>)
          /\ emitted[2] = Token("Assign", <<"=">>)
    /\ (lexer.input = <<"!", "=", "=">> /\ Len(emitted) >= 2) =>
          /\ emitted[1] = Token("NotEQ", <<"!", "=">>)
          /\ emitted[2] = Token("Assign", <<"=">>)

TwoCharOperators == []TripleEquals /\ [][TwoCharStep]_vars

TwoCharOperatorsWitness ==
    /\ lexer.input = <<"!", "=", "=">>
    /\ emitted = <<Token("NotEQ", <<"!", "=">>), Token("Assign", <<"=">>)>>
    /\ lexer.position = 3

(***************************************************************************)
(* C9.  On a letter or underscore the lexer consumes the maximal run of    *)
(* letters and underscores, stops at the first other character without     *)
(* consuming it, and classifies the run as a keyword exactly when it is    *)
(* one of the seven reserved words (case-sensitively), else Ident; on a    *)
(* digit it consumes the maximal run of digits as one Int.  Thus `a1`      *)
(* lexes as Ident `a`, Int `1`, and `1a` as Int `1`, Ident `a`.            *)
(***************************************************************************)
WordStep ==
    lexer.position < Len(lexer.input) =>
        /\ CharAt(TokenStart) \in Letters =>
              /\ Last(emitted').literal =
                    SubSeq(lexer.input, TokenStart + 1, RunEnd(TokenStart, Letters))
              /\ Last(emitted').token_type = KeywordKind(Last(emitted').literal)
              /\ lexer'.position = RunEnd(TokenStart, Letters)
              /\ lexer'.ch = CharAt(RunEnd(TokenStart, Letters))
        /\ CharAt(TokenStart) \in Digits =>
              /\ Last(emitted').literal =
                    SubSeq(lexer.input, TokenStart + 1, RunEnd(TokenStart, Digits))
              /\ Last(emitted').token_type = "Int"
              /\ lexer'.position = RunEnd(TokenStart, Digits)
              /\ lexer'.ch = CharAt(RunEnd(TokenStart, Digits))

LetterDigitBoundary ==
    /\ (lexer.input = <<"a", "1">> /\ Len(emitted) >= 2) =>
          /\ emitted[1] = Token("Ident", <<"a">>)
          /\ emitted[2] = Token("Int", <<"1">>)
    /\ (lexer.input = <<"1", "a">> /\ Len(emitted) >= 2) =>
          /\ emitted[1] = Token("Int", <<"1">>)
          /\ emitted[2] = Token("Ident", <<"a">>)

IdentifiersAndIntegers == []LetterDigitBoundary /\ [][WordStep]_vars

IdentifiersAndIntegersWitness ==
    /\ lexer.input = <<"_", "a", "1">>
    /\ emitted = <<Token("Ident", <<"_", "a">>), Token("Int", <<"1">>)>>
    /\ lexer.position = 3

(***************************************************************************)
(* C10 as stated.  Whenever a statement step appends an error to the log,  *)
(* that statement contributes no node to Program.statements.               *)
(***************************************************************************)
FailedStatementAddsNoNode ==
    [][Len(errors') > Len(errors) => statements' = statements]_vars

(***************************************************************************)
(* C10 amended.  A let statement whose next token is not Ident, or whose   *)
(* token after the name is not Assign, appends exactly one error and       *)
(* contributes no node, and a let statement appends an error in no other   *)
(* case; an expression statement that appends an error without panicking   *)
(* is still emitted, with no expression.                                   *)
(***************************************************************************)
LetStep ==
    (pc = "statement" /\ current_token.token_type = "Let") =>
        IF \/ peek_token.token_type # "Ident"
           \/ emitted'[Len(emitted) + 1].token_type # "Assign"
        THEN /\ Len(errors') = Len(errors) + 1
             /\ SubSeq(errors', 1, Len(errors)) = errors
             /\ statements' = statements
             /\ pending' = NoneExpr
             /\ pc' = "statement"
        ELSE errors' = errors

ExpressionStep ==
    (pc = "statement" /\ current_token.token_type \notin {"Let", "Return"}
        /\ Len(errors') > Len(errors) /\ pc' # "panicked") =>
            /\ Len(statements') = Len(statements) + 1
            /\ SubSeq(statements', 1, Len(statements)) = statements
            /\ Last(statements').node_type = "ExpressionStatement"
            /\ Last(statements').expression = NoneExpr

FailedLetAddsNoNode == [][LetStep /\ ExpressionStep]_vars

FailedLetWitness ==
    /\ SourceWords = <<<<"l", "e", "t">>, <<"a">>, <<"5">>>>
    /\ Len(errors) = 1
    /\ errors[1][1] = "expected next token to be "
    /\ statements = <<>>
    /\ current_token.token_type = "Int"
    /\ pc = "statement"

(***************************************************************************)
(* C11.  An ExpressionStatement with no expression occurs in the program   *)
(* only if errors() is non-empty, and a turn of parse_program's loop that  *)
(* yields no node appends an error (errors are never removed): when        *)
(* errors() is empty after parse_program, every ExpressionStatement holds  *)
(* an expression and no statement was dropped.                             *)
(***************************************************************************)
AbsentExpressionHasError ==
    (\E i \in 1..Len(statements) :
        /\ statements[i].node_type = "ExpressionStatement"
        /\ statements[i].expression = NoneExpr)
            => errors # <<>>

DroppedStatementHasError ==
    /\ Len(errors') >= Len(errors)
    /\ SubSeq(errors', 1, Len(errors)) = errors
    /\ (pc = "statement" /\ pc' = "statement" /\ statements' = statements)
          => Len(errors') > Len(errors)
    /\ pc = "skip" => (pending # NoneExpr /\ (pc' = "statement" => statements' = Append(statements, pending)))

ErrorsAreVisible == []AbsentExpressionHasError /\ [][DroppedStatementHasError]_vars

ErrorsAreVisibleWitness ==
    /\ pc = "done"
    /\ SourceWords = <<I64MaxPlusOne>>
    /\ Len(statements) = 1
    /\ statements[1].node_type = "ExpressionStatement"
    /\ statements[1].expression = NoneExpr
    /\ Len(errors) = 1

(***************************************************************************)
(* C12.  When a let statement's expected token kind does not match the     *)
(* peek token, the error appended is exactly the text                      *)
(* `expected next token to be X, got Y instead` with X and Y the display   *)
(* names of the expected and of the actual peek kind, with no quoting, and *)
(* the failed expectation advances neither current nor peek: after the     *)
(* turn of parse_program's loop the current token is the token that was    *)
(* refused.  The code formats the display names with {:?}, which wraps     *)
(* them in double quotes.                                                  *)
(***************************************************************************)
PlainPeekError(expected, actual) ==
    <<"expected next token to be ">> \o as_str(expected)
        \o <<", got ">> \o as_str(actual) \o <<" instead">>

FailedLetExpectation ==
    (pc = "statement" /\ current_token.token_type = "Let") =>
        /\ peek_token.token_type # "Ident" =>
              /\ errors' = Append(errors, PlainPeekError("Ident", peek_token.token_type))
              /\ current_token' = peek_token
              /\ Len(emitted') = Len(emitted) + 1
        /\ (peek_token.token_type = "Ident"
                /\ emitted'[Len(emitted) + 1].token_type # "Assign") =>
              /\ errors' = Append(errors,
                    PlainPeekError("Assign", emitted'[Len(emitted) + 1].token_type))
              /\ current_token' = emitted'[Len(emitted) + 1]
              /\ Len(emitted') = Len(emitted) + 2

PeekErrorIsPlainText == [][FailedLetExpectation]_vars

(***************************************************************************)
(* Sources made of statements `let <identifier> = <integer>;` with any     *)
(* whitespace between the tokens: LetShape(s, 1, <<>>) tells whether s is  *)
(* one and lists its identifiers.                                          *)
(***************************************************************************)
RECURSIVE SkipRun(_, _, _)
SkipRun(s, i, S) == IF i <= Len(s) /\ s[i] \in S THEN SkipRun(s, i + 1, S) ELSE i

NoLetShape == [ok |-> FALSE, names |-> <<>>]

RECURSIVE LetShape(_, _, _)

LetSemicolonAt(s, g, names) ==
    IF g <= Len(s) /\ s[g] = ";" THEN LetShape(s, g + 1, names) ELSE NoLetShape

LetIntegerAt(s, e, f, names) ==
    IF f > e THEN LetSemicolonAt(s, SkipRun(s, f, Whitespace), names) ELSE NoLetShape

LetAssignAt(s, d, names) ==
    IF d <= Len(s) /\ s[d] = "="
    THEN LetIntegerAt(s, SkipRun(s, d + 1, Whitespace),
                      SkipRun(s, SkipRun(s, d + 1, Whitespace), Digits), names)
    ELSE NoLetShape

LetIdentifierAt(s, b, c, names) ==
    IF c > b /\ KeywordKind(SubSeq(s, b, c - 1)) = "Ident"
    THEN LetAssignAt(s, SkipRun(s, c, Whitespace), Append(names, SubSeq(s, b, c - 1)))
    ELSE NoLetShape

LetKeywordAt(s, a, names) ==
    IF a > Len(s) THEN [ok |-> TRUE, names |-> names]
    ELSE IF a + 3 <= Len(s) /\ SubSeq(s, a, a + 2) = <<"l", "e", "t">>
            /\ s[a + 3] \in Whitespace
    THEN LetIdentifierAt(s, SkipRun(s, a + 3, Whitespace),
                         SkipRun(s, SkipRun(s, a + 3, Whitespace), Letters), names)
    ELSE NoLetShape

LetShape(s, i, names) == LetKeywordAt(s, SkipRun(s, i, Whitespace), names)

LetNamesOfSource == LetShape(lexer.input, 1, <<>>)

(***************************************************************************)
(* C13.  For a source of n statements `let <identifier> = <integer>;`      *)
(* (n >= 0, any whitespace between tokens) parse_program returns exactly n *)
(* statements in source order, the i-th a LetStatement with token literal  *)
(* `let` whose name.value and name's token literal are the i-th            *)
(* identifier, and errors() is empty.                                      *)
(***************************************************************************)
LetStatementsParse ==
    LetNamesOfSource.ok =>
        /\ pc # "panicked"
        /\ errors = <<>>
        /\ pc = "done" =>
              /\ Len(statements) = Len(LetNamesOfSource.names)
              /\ \A i \in 1..Len(statements) :
                    /\ statements[i].node_type = "LetStatement"
                    /\ statements[i].token.literal = <<"l", "e", "t">>
                    /\ statements[i].name.value = LetNamesOfSource.names[i]
                    /\ statements[i].name.token.literal = LetNamesOfSource.names[i]

LetStatementsParseWitness ==
    /\ pc = "done"
    /\ lexer.input = LetText(<<"a">>, <<"1", "0">>, "compact")
                        \o LetText(<<"x", "_", "y">>, <<"5">>, "lines")
    /\ LetNamesOfSource = [ok |-> TRUE, names |-> <<<<"a">>, <<"x", "_", "y">>>>]
    /\ Len(statements) = 2
    /\ statements[2].name.value = <<"x", "_", "y">>

(***************************************************************************)
(* An expression source: words that hold no semicolon and parse, with no   *)
(* error, to one expression statement.                                     *)
(***************************************************************************)
ParseOf(words) == ExpressionProgram(ParserNew(LexerNew(Join(words))), <<>>)

IsOneExpression(program) ==
    /\ program.ok
    /\ program.errors = <<>>
    /\ Len(program.statements) = 1
    /\ program.statements[1].node_type = "ExpressionStatement"

IsExpressionSource(words) ==
    /\ words # <<>>
    /\ \A i \in 1..Len(words) : words[i] # <<";">>
    /\ IsOneExpression(ParseOf(words))

\* The index of the first word `;` of the source, 0 when there is none.
FirstSemicolon ==
    IF \E i \in 1..Len(SourceWords) : SourceWords[i] = <<";">>
    THEN CHOOSE i \in 1..Len(SourceWords) :
            /\ SourceWords[i] = <<";">>
            /\ \A j \in 1..(i - 1) : SourceWords[j] # <<";">>
    ELSE 0

BeforeSemicolon == SubSeq(SourceWords, 1, FirstSemicolon - 1)

AfterSemicolon == SubSeq(SourceWords, FirstSemicolon + 1, Len(SourceWords))

(***************************************************************************)
(* C14.  The semicolon after an expression statement is optional and is    *)
(* consumed when present: for an expression source E, `E` and `E;` both    *)
(* yield a one-statement program with the same printed form and no errors, *)
(* and for expression sources E1 and E2, `E1; E2` yields exactly two       *)
(* ExpressionStatements and prints as the printed form of E1 followed      *)
(* directly by that of E2.                                                 *)
(***************************************************************************)
PrintsAs(program) == ProgramString(statements) = ProgramString(program.statements)

PrintsAsBoth(first, second) ==
    ProgramString(statements) =
        ProgramString(first.statements) \o ProgramString(second.statements)

SemicolonIsOptional ==
    pc \in {"done", "panicked"} =>
        /\ IsExpressionSource(SourceWords) =>
              /\ pc = "done"
              /\ errors = <<>>
              /\ statements = ParseOf(SourceWords).statements
        /\ (FirstSemicolon > 0 /\ IsExpressionSource(BeforeSemicolon)) =>
              /\ AfterSemicolon = <<>> =>
                    /\ pc = "done"
                    /\ errors = <<>>
                    /\ Len(statements) = 1
                    /\ statements[1].node_type = "ExpressionStatement"
                    /\ PrintsAs(ParseOf(BeforeSemicolon))
              /\ IsExpressionSource(AfterSemicolon) =>
                    /\ pc = "done"
                    /\ errors = <<>>
                    /\ Len(statements) = 2
                    /\ statements[1].node_type = "ExpressionStatement"
                    /\ statements[2].node_type = "ExpressionStatement"
                    /\ PrintsAsBoth(ParseOf(BeforeSemicolon), ParseOf(AfterSemicolon))

SemicolonIsOptionalWitness ==
    /\ pc = "done"
    /\ SourceWords = <<<<"3">>, <<"+">>, <<"4">>, <<";">>, <<"-">>, <<"5">>, <<"*">>, <<"5">>>>
    /\ errors = <<>>
    /\ Len(statements) = 2
    /\ ProgramString(statements) =
          <<"(", "3", " ", "+", " ", "4", ")", "(", "(", "-", "5", ")", " ", "*", " ", "5", ")">>

(***************************************************************************)
(* C15.  For every finite source parse_program eventually returns with the *)
(* current token EOF, a `let` (after its `=`) or a `return` with no        *)
(* semicolon before the end of input included.  A run that returns is      *)
(* never inside the skipping loop of a let or return statement with the    *)
(* input exhausted: there current and peek are EOF and every further       *)
(* next_token yields EOF again, so Semicolon never becomes current.        *)
(***************************************************************************)
InputExhausted ==
    /\ lexer.position >= Len(lexer.input)
    /\ lexer.ch = NUL
    /\ current_token.token_type = "EOF"
    /\ peek_token.token_type = "EOF"

ParseProgramReturns == ~(pc = "skip" /\ InputExhausted)

(***************************************************************************)
(* The lexer after construction and k calls of read_char.                  *)
(***************************************************************************)
RECURSIVE ReadChars(_, _)
ReadChars(l, k) == IF k = 0 THEN l ELSE ReadChars(read_char(l), k - 1)

ByteAt(input, p) == IF p < Len(input) THEN input[p + 1] ELSE NUL

CursorHolds(l) ==
    /\ l.read_position = l.position + 1
    /\ l.ch = ByteAt(l.input, l.position)

PeekHolds(l) == peek_char(l) = ByteAt(l.input, l.read_position)

(***************************************************************************)
(* C16.  After construction and after every read_char call,                *)
(* read_position = position + 1 and the held character is the source byte  *)
(* at position when position < len and NUL when position >= len; peek_char *)
(* returns the byte at read_position, or NUL out of range.  It holds of    *)
(* the lexer between next_token calls and, from the constructed lexer (no  *)
(* token taken yet), after any number of read_char calls, past the end of  *)
(* the input included.                                                     *)
(***************************************************************************)
CursorInvariant ==
    /\ CursorHolds(lexer)
    /\ PeekHolds(lexer)
    /\ emitted = <<>> =>
          \A k \in 0..(Len(lexer.input) + MaxOverrun) :
              /\ CursorHolds(ReadChars(lexer, k))
              /\ PeekHolds(ReadChars(lexer, k))
              /\ ReadChars(lexer, k).position = k

CursorInvariantWitness ==
    /\ lexer.input = <<"!", "=", "a">>
    /\ Len(emitted) = 3
    /\ lexer.position = 4
    /\ lexer.read_position = 5
    /\ lexer.ch = NUL
    /\ peek_char(lexer) = NUL

(***************************************************************************)
(* The first n tokens of the lexer l driven alone, and the lexer after     *)
(* them.                                                                   *)
(***************************************************************************)
RECURSIVE TokenStream(_, _)
TokenStreamFrom(r, n) == <<r.token>> \o TokenStream(r.lexer, n - 1)

TokenStream(l, n) == IF n = 0 THEN <<>> ELSE TokenStreamFrom(LexerNextToken(l), n)

RECURSIVE LexerAfter(_, _)
LexerAfter(l, n) == IF n = 0 THEN l ELSE LexerAfter(LexerNextToken(l).lexer, n - 1)

(***************************************************************************)
(* C17.  The parser consumes the lexer's token stream in order with        *)
(* exactly one token of lookahead: after construction current is the first *)
(* token and peek the second, and after every advance current is the k-th  *)
(* and peek the (k+1)-th token of the stream, k growing by one with each   *)
(* advance; once the lexer is exhausted both become EOF.                   *)
(***************************************************************************)
OneTokenOfLookahead ==
    /\ Len(emitted) >= 2
    /\ emitted = TokenStream(LexerNew(lexer.input), Len(emitted))
    /\ lexer = LexerAfter(LexerNew(lexer.input), Len(emitted))
    /\ current_token = emitted[Len(emitted) - 1]
    /\ peek_token = emitted[Len(emitted)]
    /\ LexerAfter(LexerNew(lexer.input), Len(emitted) - 2).position >= Len(lexer.input)
          => (current_token = Token("EOF", <<>>) /\ peek_token = Token("EOF", <<>>))

TokensInOrder ==
    /\ Len(emitted') >= Len(emitted)
    /\ SubSeq(emitted', 1, Len(emitted)) = emitted

LookaheadInvariant == []OneTokenOfLookahead /\ [][TokensInOrder]_vars

LookaheadInvariantWitness ==
    /\ SourceWords = <<<<"a">>, <<";">>, <<"5">>>>
    /\ Len(statements) = 1
    /\ Len(emitted) = 4
    /\ current_token = Token("Int", <<"5">>)
    /\ peek_token = Token("EOF", <<>>)

(***************************************************************************)
(* The index of the first word `(` of the source, 0 when there is none.    *)
(***************************************************************************)
FirstLParen ==
    IF \E i \in 1..Len(SourceWords) : SourceWords[i] = <<"(">>
    THEN CHOOSE i \in 1..Len(SourceWords) :
            /\ SourceWords[i] = <<"(">>
            /\ \A j \in 1..(i - 1) : SourceWords[j] # <<"(">>
    ELSE 0

BeforeLParen == SubSeq(SourceWords, 1, FirstLParen - 1)

\* parse_program stands at the first statement of `E (...`, E an expression
\* source of one token a word.
AtExpressionBeforeLParen ==
    /\ pc = "statement"
    /\ Len(emitted) = 2
    /\ FirstLParen > 1
    /\ IsExpressionSource(BeforeLParen)

NoPrefixParseFunction(token_type) ==
    <<"no prefix parse function for ", token_type, " found">>

(***************************************************************************)
(* C18.  When the peek token is `(`, whose precedence Call exceeds the     *)
(* caller's while it is none of the eight infix operators, parse_expression *)
(* returns the accumulated left expression without consuming the `(` and   *)
(* without appending an error; the `(` then starts the next statement,     *)
(* which fails with a `no prefix parse function` error.                    *)
(***************************************************************************)
ReturnsLeftAtLParen ==
    AtExpressionBeforeLParen =>
        /\ ~parse_expression(PS, Lowest).panicked
        /\ parse_expression(PS, Lowest).expr = ParseOf(BeforeLParen).statements[1].expression
        /\ parse_expression(PS, Lowest).ps.errors = errors
        /\ parse_expression(PS, Lowest).ps.peek_token = Token("LParen", <<"(">>)
        /\ Len(parse_expression(PS, Lowest).ps.emitted) = FirstLParen

LParenStartsNextStatement ==
    /\ AtExpressionBeforeLParen =>
          /\ pc' = "statement"
          /\ errors' = errors
          /\ Len(statements') = 1
          /\ ProgramString(statements') = ProgramString(ParseOf(BeforeLParen).statements)
          /\ current_token' = Token("LParen", <<"(">>)
          /\ Len(emitted') = FirstLParen + 1
    /\ (pc = "statement" /\ current_token.token_type = "LParen") =>
          /\ errors' = Append(errors, NoPrefixParseFunction("LParen"))
          /\ Len(statements') = Len(statements) + 1
          /\ Last(statements').node_type = "ExpressionStatement"
          /\ Last(statements').expression = NoneExpr

LParenEndsExpression == []ReturnsLeftAtLParen /\ [][LParenStartsNextStatement]_vars

LParenEndsExpressionWitness ==
    /\ pc = "done"
    /\ SourceWords = <<<<"-">>, <<"5">>, <<"*">>, <<"5">>, <<"(">>>>
    /\ errors = <<NoPrefixParseFunction("LParen")>>
    /\ Len(statements) = 2
    /\ statements[2].expression = NoneExpr
    /\ ProgramString(statements) = <<"(", "(", "-", "5", ")", " ", "*", " ", "5", ")">>

(***************************************************************************)
(* A source `let <identifier> = ... ;` or `return ... ;` whose only        *)
(* semicolon is its last word.                                             *)
(***************************************************************************)
OnlyFinalSemicolon ==
    /\ FirstSemicolon = Len(SourceWords)
    /\ \A i \in 1..(Len(lexer.input) - 1) : lexer.input[i] # ";"

IsLetToSemicolon ==
    /\ Len(SourceWords) >= 4
    /\ SourceWords[1] = <<"l", "e", "t">>
    /\ SourceWords[2] \in {<<"a">>, <<"x">>, <<"x", "_", "y">>}
    /\ SourceWords[3] = <<"=">>
    /\ OnlyFinalSemicolon

IsReturnToSemicolon ==
    /\ Len(SourceWords) >= 2
    /\ SourceWords[1] = <<"r", "e", "t", "u", "r", "n">>
    /\ OnlyFinalSemicolon

IsPlaceholder(e) ==
    /\ e # NoneExpr
    /\ e.node_type = "Identifier"
    /\ e.token = Token("Ident", <<>>)
    /\ e.value = <<>>

(***************************************************************************)
(* C19.  Every LetStatement and ReturnStatement the parser produces        *)
(* carries a placeholder Identifier with empty lexeme and empty value,     *)
(* whatever the tokens between the keyword and the terminating semicolon,  *)
(* and the ReturnStatement's value is always present: `return 5;` prints   *)
(* `return ;` and `let x = 5;` prints `let x = ;`; all tokens up to the    *)
(* first semicolon, a following `let` or `return` keyword included, are    *)
(* discarded without error.                                                *)
(***************************************************************************)
ValuesArePlaceholders ==
    /\ \A i \in 1..Len(statements) :
          statements[i].node_type \in {"LetStatement", "ReturnStatement"}
              => IsPlaceholder(statements[i].value)
    /\ pc = "skip" =>
          /\ pending.node_type \in {"LetStatement", "ReturnStatement"}
          /\ IsPlaceholder(pending.value)
    /\ (pc = "done" /\ IsLetToSemicolon) =>
          /\ errors = <<>>
          /\ Len(statements) = 1
          /\ statements[1].node_type = "LetStatement"
          /\ ProgramString(statements) =
                <<"l", "e", "t", " ">> \o SourceWords[2] \o <<" ", "=", " ", ";">>
    /\ (pc = "done" /\ IsReturnToSemicolon) =>
          /\ errors = <<>>
          /\ Len(statements) = 1
          /\ statements[1].node_type = "ReturnStatement"
          /\ ProgramString(statements) = <<"r", "e", "t", "u", "r", "n", " ", ";">>

SkippedWithoutError ==
    /\ pc' = "skip" => errors' = errors
    /\ pc = "skip" =>
          /\ errors' = errors
          /\ current_token.token_type # "Semicolon" =>
                /\ pc' = "skip"
                /\ pending' = pending
                /\ statements' = statements
                /\ current_token' = peek_token
          /\ current_token.token_type = "Semicolon" =>
                /\ pc' = "statement"
                /\ statements' = Append(statements, pending)
                /\ current_token' = peek_token

ValueIsDiscarded == []ValuesArePlaceholders /\ [][SkippedWithoutError]_vars

ValueIsDiscardedWitness ==
    /\ pc = "done"
    /\ SourceWords = <<<<"l", "e", "t">>, <<"x">>, <<"=">>,
                       <<"r", "e", "t", "u", "r", "n">>, <<";">>>>
    /\ errors = <<>>
    /\ Len(statements) = 1
    /\ ProgramString(statements) = <<"l", "e", "t", " ", "x", " ", "=", " ", ";">>

====
